---- MODULE Spec2Model ----
(***************************************************************************)
(* A model of sophios/input_output.py: the Config Store (get_config and    *)
(* its helpers), the Context Injector (write_absolute_yaml_tags) and the   *)
(* Tree Writer (_write_to_disk).                                           *)
(*                                                                         *)
(* Python strings whose characters matter (path strings, step names, file  *)
(* names, ledger keys) are sequences of one-character strings, so that     *)
(* joining, prefixing and path parsing are computed character by           *)
(* character.  Python dicts are functions; a path on the file system is a  *)
(* sequence of components.                                                 *)
(***************************************************************************)
EXTENDS Integers, Sequences, FiniteSets, TLC

VARIABLES
    \* ---- Config Store ----
    present,        \* the config files that exist on disk
    content,        \* [present -> JSON text]
    dirs,           \* the directories that exist
    cwd,            \* the process's working directory at the latest call
    last,           \* the latest get_config call: arguments, branch, result
    prev,           \* the get_config call before it
    pc,             \* "running" | "exited" ("idle": the store is not in use)
    exit_status,    \* the status sys.exit() ended the process with (-1: none)
    \* ---- Context Injector ----
    in_dicts,       \* [position -> the `in:` dict of that step]
    ledger,         \* explicit_edge_calls_copy: [key -> <<namespaces, arg>>]
    calls,          \* the positions injected so far, in call order
    snapshots,      \* the ledger as it was after each call
    \* ---- Tree Writer ----
    rose_tree,      \* [namespaces -> NodeData], a prefix-closed domain
    relative_run_path,
    inputs,         \* the extra inputs passed at the root
    stack,          \* pending _write_to_disk calls: [node, path, inputs]
    fs,             \* [written file path -> document]
    made_dirs,      \* directories created by mkdir
    written         \* per node, the directory and file names its call used

cfgVars == <<present, content, dirs, cwd, last, prev, pc, exit_status>>
injVars == <<in_dicts, ledger, calls, snapshots>>
wrVars  == <<rose_tree, relative_run_path, inputs, stack, fs, made_dirs, written>>
vars    == <<cfgVars, injVars, wrVars>>

\* No get_config call yet.
NoCall ==
    [called |-> FALSE, config_file |-> <<>>, default_config_file |-> <<>>,
     branch |-> "none", msg |-> "", ret |-> <<>>]

----------------------------------------------------------------------------
(* Strings *)

RECURSIVE Concat(_)
\* ''.join(list)
Concat(ss) == IF ss = <<>> THEN <<>> ELSE Head(ss) \o Concat(Tail(ss))

RECURSIVE Join(_, _)
\* sep.join(list)
Join(sep, ss) ==
    IF ss = <<>> THEN <<>>
    ELSE IF Len(ss) = 1 THEN ss[1]
    ELSE ss[1] \o sep \o Join(sep, Tail(ss))

Range(f) == {f[x] : x \in DOMAIN f}

\* list[-1]
Last(s) == s[Len(s)]

----------------------------------------------------------------------------
(* pathlib, as far as input_output.py uses it *)

Slash == <<"/">>

RECURSIVE SplitSlash(_, _)
\* The '/'-separated pieces of s, `cur` being the piece under construction.
SplitSlash(s, cur) ==
    IF s = <<>> THEN <<cur>>
    ELSE IF Head(s) = "/" THEN <<cur>> \o SplitSlash(Tail(s), <<>>)
    ELSE SplitSlash(Tail(s), Append(cur, Head(s)))

\* Path(s): the root ('' | '/' | '//') and the parts; empty and '.' pieces drop.
PathRoot(s) ==
    IF Len(s) >= 1 /\ s[1] = "/"
    THEN IF Len(s) >= 2 /\ s[2] = "/" /\ ~(Len(s) >= 3 /\ s[3] = "/")
         THEN <<"/", "/">> ELSE <<"/">>
    ELSE <<>>

Path(s) ==
    [root  |-> PathRoot(s),
     parts |-> SelectSeq(SplitSlash(s, <<>>), LAMBDA p : p # <<>> /\ p # <<".">>)]

\* str(path)
PathStr(p) ==
    IF p.root = <<>> /\ p.parts = <<>> THEN <<".">>
    ELSE p.root \o Join(Slash, p.parts)

\* path.is_absolute()
is_absolute(p) == p.root # <<>>

\* A slip in absolute(): the working directory is prefixed to every path.
absolute_always_prefixed(p, wd) ==
    [root |-> Path(wd).root, parts |-> Path(wd).parts \o p.parts]

\* path.absolute(): an absolute path is returned as it is, a relative one is
\* appended to the working directory; nothing is resolved.
absolute(p, wd) ==
    IF is_absolute(p) THEN p
    ELSE [root |-> Path(wd).root, parts |-> Path(wd).parts \o p.parts]

\* path.parent
parent(p) ==
    IF p.parts = <<>> THEN p
    ELSE [root |-> p.root, parts |-> SubSeq(p.parts, 1, Len(p.parts) - 1)]

----------------------------------------------------------------------------
(* json, for the documents a config file holds: an object is written as    *)
(* its sequence of <<key, value>> members and read back member by member,  *)
(* a later member replacing an earlier one of the same key.                *)

KeyOrder == <<"search_paths_cwl", "search_paths_wic", "global", "gpu">>

Keys(d) == SelectSeq(KeyOrder, LAMBDA k : k \in DOMAIN d)

\* json.dump(config, f): the text written
json_dump(config) ==
    [i \in 1..Len(Keys(config)) |->
        LET tag == Keys(config)[i]
            sub == config[tag]
        IN  <<tag, [j \in 1..Len(Keys(sub)) |-> <<Keys(sub)[j], sub[Keys(sub)[j]]>>]>>]

LastMember(text, k) ==
    text[CHOOSE i \in DOMAIN text :
            /\ text[i][1] = k
            /\ \A j \in DOMAIN text : text[j][1] = k => j <= i][2]

\* json.load(f): the object read
json_load(text) ==
    [tag \in {text[i][1] : i \in DOMAIN text} |->
        LET sub == LastMember(text, tag)
        IN  [ns \in {sub[j][1] : j \in DOMAIN sub} |-> LastMember(sub, ns)]]

----------------------------------------------------------------------------
(* Config Store *)

\* The files get_config is asked for, and the file shipped beside the module.
DefaultFile == <<"home", "wic", "global_config.json">>
UserFile    == <<"work", "my_config.json">>
TypoFile    == <<"work", "no_such_config.json">>
BundledFile == <<"site", "sophios", "config.json">>

RequestedFiles == {DefaultFile, UserFile, TypoFile}
DefaultFiles   == {DefaultFile, UserFile}

\* Working directories the process may be started in.
Cwds == {<<"/", "h">>, <<"/", "w", "/", "x">>}

\* Path strings a config file may hold: relative, absolute, and spellings
\* that pathlib normalises.
RelStr    == <<"a">>
AbsStr    == <<"/", "b">>
DottedStr == <<".", "/", "a", "/", "/", "c", "/">>
TwoSlash  == <<"/", "/", "n">>

PathLists == {<<RelStr>>, <<AbsStr, DottedStr>>, <<TwoSlash, RelStr>>}

SubConfigs ==
    [{"global"} -> PathLists \ {<<TwoSlash, RelStr>>}]
        \cup {[ns \in {"global", "gpu"} |->
                 IF ns = "global" THEN <<AbsStr, DottedStr>> ELSE <<TwoSlash, RelStr>>]}

conf_tags == {"search_paths_cwl", "search_paths_wic"}

\* The config objects a file on disk may hold.
DiskConfigs == [conf_tags -> SubConfigs]

\* A path string is absolute when it starts with the root.
IsAbsoluteStr(s) == Len(s) >= 1 /\ s[1] = "/"

\* Every proper ancestor directory of a file path.
Parents(file) == {SubSeq(file, 1, n) : n \in 0..(Len(file) - 1)}

\* A slip in get_absolute_paths: the deep copy is returned as it is.
get_absolute_paths_copy_only(sub_config, wd) ==
    [ns \in DOMAIN sub_config |-> sub_config[ns]]

\* get_absolute_paths(sub_config), in working directory wd
get_absolute_paths(sub_config, wd) ==
    [ns \in DOMAIN sub_config |->
        [i \in 1..Len(sub_config[ns]) |->
            PathStr(absolute(Path(sub_config[ns][i]), wd))]]

\* read_config_from_disk(config_file), given the file's text
read_config_from_disk(text, wd) ==
    LET config == json_load(text)
    IN  [tag \in DOMAIN config |->
            IF tag \in conf_tags THEN get_absolute_paths(config[tag], wd)
            ELSE config[tag]]

\* get_default_config(): the bundled config.json, read like any other
get_default_config(wd) == read_config_from_disk(content[BundledFile], wd)

\* A slip in write_config_to_disk: the file written is always the one in the
\* user's ~/wic directory.
write_config_to_home(config, config_file) ==
    /\ dirs' = dirs \cup Parents(DefaultFile)
    /\ present' = present \cup {DefaultFile}
    /\ content' = [f \in present \cup {DefaultFile} |->
                      IF f = DefaultFile THEN json_dump(config) ELSE content[f]]

\* write_config_to_disk(config, config_file)
write_config_to_disk(config, config_file) ==
    /\ dirs' = dirs \cup Parents(config_file)
    /\ present' = present \cup {config_file}
    /\ content' = [f \in present \cup {config_file} |->
                      IF f = config_file THEN json_dump(config) ELSE content[f]]

\* sys.exit(arg): the process's exit status
sys_exit(arg) == IF arg = "None" THEN 0 ELSE 1

\* get_config(config_file, default_config_file), called in directory wd
get_config(config_file, default_config_file, wd) ==
    /\ pc = "running"
    /\ cwd' = wd
    /\ prev' = last
    /\ IF config_file \notin present
       THEN IF config_file = default_config_file
            THEN LET global_config == get_default_config(wd)
                 IN  /\ write_config_to_disk(global_config, default_config_file)
                     /\ last' = [called |-> TRUE, config_file |-> config_file,
                                 default_config_file |-> default_config_file,
                                 branch |-> "generated",
                                 msg |-> "default config file generated",
                                 ret |-> <<global_config>>]
                     /\ UNCHANGED <<pc, exit_status>>
            ELSE /\ last' = [called |-> TRUE, config_file |-> config_file,
                             default_config_file |-> default_config_file,
                             branch |-> "error",
                             msg |-> "Error user specified config file doesn't exist",
                             ret |-> <<>>]
                 /\ pc' = "exited"
                 /\ exit_status' = sys_exit("None")
                 /\ UNCHANGED <<present, content, dirs>>
       ELSE /\ last' = [called |-> TRUE, config_file |-> config_file,
                        default_config_file |-> default_config_file,
                        branch |-> "exists", msg |-> "",
                        ret |-> <<read_config_from_disk(content[config_file], wd)>>]
            /\ UNCHANGED <<present, content, dirs, pc, exit_status>>
    /\ UNCHANGED <<injVars, wrVars>>

InitConfig ==
    /\ \E user \in SUBSET {DefaultFile, UserFile} :
         /\ present = {BundledFile} \cup user
         /\ \E c \in [present -> DiskConfigs] :
              content = [f \in present |-> json_dump(c[f])]
         /\ dirs = UNION {Parents(f) : f \in present}
    /\ cwd \in Cwds
    /\ last = NoCall
    /\ prev = NoCall
    /\ pc = "running"
    /\ exit_status = -1
    \* the injector and the writer are not in use
    /\ in_dicts = <<>> /\ ledger = <<>> /\ calls = <<>> /\ snapshots = <<>>
    /\ rose_tree = <<>> /\ relative_run_path = FALSE /\ inputs = <<>>
    /\ stack = <<>> /\ fs = <<>> /\ made_dirs = {} /\ written = <<>>

NextConfig ==
    \E config_file \in RequestedFiles, default_config_file \in DefaultFiles, wd \in Cwds :
        get_config(config_file, default_config_file, wd)

----------------------------------------------------------------------------
(* Config Store: the claims *)

SameArguments(a, b) ==
    /\ a.config_file = b.config_file
    /\ a.default_config_file = b.default_config_file

AllPathsAbsolute(config) ==
    \A tag \in DOMAIN config : \A ns \in DOMAIN config[tag] :
        \A i \in DOMAIN config[tag][ns] : IsAbsoluteStr(config[tag][ns][i])

SomePathRelative(config) ==
    \E tag \in DOMAIN config : \E ns \in DOMAIN config[tag] :
        \E i \in DOMAIN config[tag][ns] : ~IsAbsoluteStr(config[tag][ns][i])

SameShape(a, b) ==
    /\ DOMAIN a = DOMAIN b
    /\ \A tag \in DOMAIN a :
         /\ DOMAIN a[tag] = DOMAIN b[tag]
         /\ \A ns \in DOMAIN a[tag] : Len(a[tag][ns]) = Len(b[tag][ns])

\* C3: a get_config call with a missing requested_path = default_path leaves
\* the file at default_path holding the config it returned (the bundled
\* config's shape); the next call with the same arguments takes the "exists"
\* branch, returns an equal config and leaves the file's content as the
\* first call wrote it.
C3_IdempotentDefaultConfig ==
    /\ last.branch = "generated" =>
         /\ last.default_config_file \in present
         /\ content[last.default_config_file] = json_dump(last.ret[1])
         /\ SameShape(last.ret[1], json_load(content[BundledFile]))
    /\ (prev.branch = "generated" /\ last.called /\ SameArguments(prev, last)) =>
         /\ last.branch = "exists"
         /\ last.ret = prev.ret
         /\ last.config_file \in present
         /\ content[last.config_file] = json_dump(prev.ret[1])

\* The second call has happened, in another working directory than the first.
C3_Witness ==
    /\ prev.branch = "generated" /\ last.branch = "exists"
    /\ SameArguments(prev, last)
    /\ SomePathRelative(json_load(content[BundledFile]))
    /\ prev.ret[1] # read_config_from_disk(content[BundledFile], cwd)

C5_MissingUserFileExitsWithFailure ==
    last.branch = "error" =>
        /\ last.msg # ""
        /\ last.ret = <<>>
        /\ pc = "exited"
        /\ exit_status # 0

\* C6: a step changes the files on disk only when the call's requested_path
\* was missing and equal to default_path, and then only the file at
\* default_path; so an existing requested file keeps its content and a
\* missing non-default one is not created.
C6_OnlyDefaultPathWritten ==
    [][\A f \in present' :
          (f \notin present \/ content'[f] # content[f]) =>
              /\ last'.config_file \notin present
              /\ last'.config_file = last'.default_config_file
              /\ f = last'.default_config_file]_vars

\* A call that read an existing file was followed by one that generated the
\* default file, in a directory that did not exist before.
C6_Witness ==
    /\ prev.branch = "exists" /\ last.branch = "generated"
    /\ last.default_config_file = DefaultFile
    /\ UserFile \in present

----------------------------------------------------------------------------
(* Context Injector *)

Sep == <<"_", "_", "_">>

root_workflow_yml_path ==
    <<"r","o","o","t","_","w","o","r","k","f","l","o","w","_","y","m","l","_","p","a","t","h">>
cachedir_path == <<"c","a","c","h","e","d","i","r","_","p","a","t","h">>
homedir == <<"h","o","m","e","d","i","r">>
message == <<"m","e","s","s","a","g","e">>

\* arg_keys_, in the order of the loop
arg_keys_ == <<root_workflow_yml_path, cachedir_path, homedir>>

\* Step names, and the namespaces a step may be nested under.
StepNames == {<<"s">>, <<"t">>}
InjNamespaces == {<<>>} \cup {<<n>> : n \in StepNames}
Positions == {Append(ns, n) : ns \in InjNamespaces, n \in StepNames}

\* The command line: args.cachedir, args.yaml, args.homedir
Args ==
    [cachedir |-> <<"c">>,
     yaml     |-> <<"w", "f", "/", "r", ".", "y">>,
     homedir  |-> <<"~">>]

\* A binding the user wrote, as opposed to {'wic_inline_input': value}.
UserBinding == [source |-> <<"u">>]

\* The `in:` dicts a step may have before injection.
InDicts ==
    {[k \in {message} |-> UserBinding],
     [k \in {message, homedir} |-> UserBinding]}

\* An explicit edge call recorded by the front-end for a user-written input.
UserLedgers ==
    {<<>>, [k \in {<<"s">> \o Sep \o message} |-> <<<<<<"s">>>>, message>>]}

\* A slip in in_name_: the name of the comment, {step_name_i}_input___{arg_key}.
in_name_input(step_name_i, arg_key_) ==
    step_name_i \o <<"_", "i", "n", "p", "u", "t">> \o Sep \o arg_key_

\* in_name_ = f'{step_name_i}___{arg_key_}'
in_name_(step_name_i, arg_key_) == Concat(<<step_name_i, Sep, arg_key_>>)

\* dict.update(other) and d[k] = v
Update(d, other) ==
    [k \in DOMAIN d \cup DOMAIN other |-> IF k \in DOMAIN other THEN other[k] ELSE d[k]]

\* The three bindings written into in_dict_in
InlineInputs(args, wd) ==
    [k \in Range(arg_keys_) |->
        [wic_inline_input |->
            IF k = root_workflow_yml_path
                THEN PathStr(absolute(parent(Path(args.yaml)), wd))
            ELSE IF k = cachedir_path
                THEN PathStr(absolute(Path(args.cachedir), wd))
            ELSE args.homedir]]

RECURSIVE UpdateEach(_, _, _, _)
\* for arg_key_ in arg_keys_: explicit_edge_calls_copy.update({in_name_: ...})
UpdateEach(edge_calls, keys, namespaces, step_name_i) ==
    IF keys = <<>> THEN edge_calls
    ELSE UpdateEach(
            Update(edge_calls,
                   [k \in {in_name_(step_name_i, Head(keys))} |->
                       <<Append(namespaces, step_name_i), Head(keys)>>]),
            Tail(keys), namespaces, step_name_i)

MaxInjections == 3

\* write_absolute_yaml_tags(args, in_dict_in, namespaces, step_name_i,
\* explicit_edge_calls_copy), in_dict_in being the `in:` dict of that step
write_absolute_yaml_tags(args, namespaces, step_name_i) ==
    LET pos == Append(namespaces, step_name_i)
    IN  /\ Len(calls) < MaxInjections
        /\ in_dicts' = [in_dicts EXCEPT ![pos] = Update(@, InlineInputs(args, cwd))]
        /\ ledger' = UpdateEach(ledger, arg_keys_, namespaces, step_name_i)
        /\ calls' = Append(calls, pos)
        /\ snapshots' = Append(snapshots, ledger')
        /\ UNCHANGED <<cfgVars, wrVars>>

InitInject ==
    /\ in_dicts \in [Positions -> InDicts]
    /\ ledger \in UserLedgers
    /\ calls = <<>>
    /\ snapshots = <<>>
    /\ cwd \in Cwds
    \* the config store and the writer are not in use
    /\ present = {} /\ content = <<>> /\ dirs = {}
    /\ last = NoCall /\ prev = NoCall /\ pc = "idle" /\ exit_status = -1
    /\ rose_tree = <<>> /\ relative_run_path = FALSE /\ inputs = <<>>
    /\ stack = <<>> /\ fs = <<>> /\ made_dirs = {} /\ written = <<>>

NextInject ==
    \E namespaces \in InjNamespaces, step_name_i \in StepNames :
        write_absolute_yaml_tags(Args, namespaces, step_name_i)

----------------------------------------------------------------------------
(* Context Injector: the claims *)

LedgerKeys(step) == {step \o <<"_", "_", "_">> \o a : a \in Range(arg_keys_)}

\* What one call leaves behind, whatever was there before: the three keys
\* bound inline in the step's input map, the three ledger keys mapped to
\* (namespaces + [step_name], argument), and nothing else touched.
InjectionEffect(pos) ==
    LET before == in_dicts[pos]
        after  == in_dicts'[pos]
    IN  /\ DOMAIN after = DOMAIN before \cup Range(arg_keys_)
        /\ \A k \in Range(arg_keys_) : DOMAIN after[k] = {"wic_inline_input"}
        /\ \A k \in DOMAIN before \ Range(arg_keys_) : after[k] = before[k]
        /\ \A p \in Positions \ {pos} : in_dicts'[p] = in_dicts[p]
        /\ Cardinality(LedgerKeys(Last(pos))) = 3
        /\ DOMAIN ledger' = DOMAIN ledger \cup LedgerKeys(Last(pos))
        /\ \A a \in Range(arg_keys_) :
              ledger'[Last(pos) \o <<"_", "_", "_">> \o a] = <<pos, a>>
        /\ \A k \in DOMAIN ledger \ LedgerKeys(Last(pos)) : ledger'[k] = ledger[k]

\* C2 (as amended): after one call the input map binds each of the three
\* keys inline and the ledger maps each '<step_name>___<argument_name>' to
\* (namespaces + [step_name], argument_name), a binding or entry already
\* there under such a key being replaced; every other entry of both is
\* unchanged; an entry is new exactly when its key was absent before.
C2_InjectionEffect ==
    [][LET pos == Last(calls')
       IN  /\ InjectionEffect(pos)
           /\ DOMAIN in_dicts'[pos] \ DOMAIN in_dicts[pos]
                = Range(arg_keys_) \ DOMAIN in_dicts[pos]
           /\ DOMAIN ledger' \ DOMAIN ledger = LedgerKeys(Last(pos)) \ DOMAIN ledger]_vars

\* C2 (as claimed): the call always adds exactly three new bindings and
\* exactly three new ledger entries.
C2_ExactlyThreeNew ==
    [][LET pos == Last(calls')
       IN  /\ InjectionEffect(pos)
           /\ Cardinality(DOMAIN in_dicts'[pos] \ DOMAIN in_dicts[pos]) = 3
           /\ Cardinality(DOMAIN ledger' \ DOMAIN ledger) = 3]_vars

\* A step nested under a namespace has been injected: its map holds the
\* user's binding beside the three inline ones, the ledger the user's entry.
C2_Witness ==
    /\ Len(calls) = 1 /\ Len(calls[1]) = 2
    /\ DOMAIN in_dicts[calls[1]] = {message} \cup Range(arg_keys_)
    /\ in_dicts[calls[1]][message] = UserBinding
    /\ Cardinality(DOMAIN ledger) = 4

PairwiseDifferent(s) == \A i, j \in DOMAIN s : i # j => s[i] # s[j]

\* C10: when the calls made so far were for pairwise different positions,
\* every entry recorded by an earlier call is still in the ledger with the
\* value it was recorded with, and the ledger holds three entries for each
\* injected position.
C10_EntriesNeverLost ==
    PairwiseDifferent(calls) =>
        /\ \A i \in DOMAIN snapshots : \A k \in DOMAIN snapshots[i] :
              k \in DOMAIN ledger /\ ledger[k] = snapshots[i][k]
        /\ \A i \in DOMAIN calls :
              Cardinality({k \in DOMAIN ledger :
                              /\ ledger[k][1] = calls[i]
                              /\ ledger[k][2] \in Range(arg_keys_)}) = 3

----------------------------------------------------------------------------
(* Documents and yaml.dump.  A value is a scalar or a reference to an      *)
(* object of the heap (a mapping); two references to one object are the    *)
(* structure a YAML writer may share.  A dumped document is a sequence of  *)
(* <<kind, text>> tokens.                                                  *)

Scalar(v) == [kind |-> "scalar", v |-> v]
Ref(o)    == [kind |-> "ref", v |-> o]

Objects == {"o1", "o2"}

\* o1 is a File binding; o2 holds o1 twice.
Heap ==
    [o \in Objects |->
        IF o = "o1" THEN [k \in {"class"} |-> Scalar("File")]
        ELSE [k \in {"in", "out"} |-> Ref("o1")]]

DocKeyOrder == <<"class", "in", "out", "steps", "x", "y", "z">>

DocKeys(d) == SelectSeq(DocKeyOrder, LAMBDA k : k \in DOMAIN d)

\* SafeDumper.ignore_aliases, which NoAliasDumper overrides: only scalars
\* are never shared.
ignore_aliases_of_SafeDumper(data) == data.kind = "scalar"

\* NoAliasDumper.ignore_aliases(data)
ignore_aliases(data) == TRUE

RECURSIVE Reachable(_, _)
\* The objects a set of values leads to.
Reachable(vals, found) ==
    LET new == {v.v : v \in {w \in vals : w.kind = "ref"}} \ found
    IN  IF new = {} THEN found
        ELSE Reachable(UNION {Range(Heap[o]) : o \in new}, found \cup new)

\* The objects the representer meets more than once: they get an anchor.
Anchored(doc) ==
    LET objs  == Reachable(Range(doc), {})
        slots == {<<"", k>> : k \in DOMAIN doc}
                    \cup {<<o, k>> : o \in objs, k \in {"class", "in", "out"}}
        At(sl) == IF sl[1] = "" THEN doc[sl[2]]
                  ELSE IF sl[2] \in DOMAIN Heap[sl[1]] THEN Heap[sl[1]][sl[2]]
                  ELSE Scalar("")
    IN  {o \in objs :
            /\ ~ignore_aliases(Ref(o))
            /\ Cardinality({sl \in slots : At(sl) = Ref(o)}) >= 2}

RECURSIVE EmitValue(_, _, _)
RECURSIVE EmitMembers(_, _, _, _)
\* One value: a scalar, an alias to an object already written, or the
\* object's members (after its anchor, when it has one).  `done` are the
\* objects written so far.
EmitValue(val, done, anchored) ==
    IF val.kind = "scalar" THEN [out |-> <<<<"scalar", val.v>>>>, done |-> done]
    ELSE IF ~ignore_aliases(val) /\ val.v \in done
        THEN [out |-> <<<<"alias", val.v>>>>, done |-> done]
    ELSE LET inner == EmitMembers(Heap[val.v], DocKeys(Heap[val.v]),
                                  done \cup {val.v}, anchored)
         IN  [out  |-> (IF val.v \in anchored THEN <<<<"anchor", val.v>>>> ELSE <<>>)
                        \o <<<<"begin", "">>>> \o inner.out \o <<<<"end", "">>>>,
              done |-> inner.done]

EmitMembers(d, keys, done, anchored) ==
    IF keys = <<>> THEN [out |-> <<>>, done |-> done]
    ELSE LET first == EmitValue(d[Head(keys)], done, anchored)
             rest  == EmitMembers(d, Tail(keys), first.done, anchored)
         IN  [out  |-> <<<<"key", Head(keys)>>>> \o first.out \o rest.out,
              done |-> rest.done]

\* yaml.dump(doc, sort_keys=False, ..., Dumper=NoAliasDumper)
yaml_dump(doc) == EmitMembers(doc, DocKeys(doc), {}, Anchored(doc)).out

----------------------------------------------------------------------------
(* Tree Writer *)

\* Step names of the tree; the second holds the separator of flat naming.
TreeStepNames == <<(<<"a">>), (<<"a", "_", "_", "_", "a">>)>>

MaxNodes == 4

\* Namespace paths of the root, its steps and their steps.
TreeNodes ==
    {<<>>} \cup {<<n>> : n \in Range(TreeStepNames)}
           \cup {<<n, m>> : n \in Range(TreeStepNames), m \in Range(TreeStepNames)}

\* The shapes of a tree: the root, and every node's parent with it.
TreeShapes ==
    {S \in SUBSET TreeNodes :
        /\ <<>> \in S
        /\ Cardinality(S) <= MaxNodes
        /\ \A n \in S : n # <<>> => SubSeq(n, 1, Len(n) - 1) \in S}

Stems == {<<"s">>, <<"t">>}

\* The compiled document of the workflow of a given name.
CompiledOf(stem) ==
    IF stem = <<"s">> THEN [k \in {"class", "steps"} |->
                              IF k = "class" THEN Scalar("Workflow") ELSE Ref("o2")]
    ELSE [k \in {"in", "out"} |-> Ref("o1")]

\* node_data.workflow_inputs_file
DefaultInputs ==
    {[k \in {"x"} |-> Scalar("1")],
     [k \in {"y", "z"} |-> IF k = "y" THEN Scalar("3") ELSE Ref("o1")]}

\* The extra inputs a caller may pass.
ExtraInputs == {<<>>, [k \in {"y"} |-> Ref("o1")]}

OutDir == <<(<<"o", "u", "t">>)>>

NodeDatas(n) ==
    {[namespaces |-> n, name |-> stem, compiled_cwl |-> CompiledOf(stem),
      workflow_inputs_file |-> d] : stem \in Stems, d \in DefaultInputs}

\* rose_tree.sub_trees of the node at namespace path n
sub_trees(n) ==
    LET steps == SelectSeq(TreeStepNames, LAMBDA m : Append(n, m) \in DOMAIN rose_tree)
    IN  [i \in 1..Len(steps) |-> Append(n, steps[i])]

DotCwl == <<".", "c", "w", "l">>
InputsYml == <<"_", "i", "n", "p", "u", "t", "s", ".", "y", "m", "l">>

\* {**a, **b}
Merge(a, b) == [k \in DOMAIN a \cup DOMAIN b |-> IF k \in DOMAIN b THEN b[k] ELSE a[k]]

\* filename_cwl
filename_cwl(node_data, relative) ==
    IF relative THEN node_data.name \o DotCwl
    ELSE Join(Sep, Append(node_data.namespaces, node_data.name \o DotCwl))

\* filename_yml
filename_yml(node_data, relative) ==
    IF relative THEN node_data.name \o InputsYml
    ELSE Join(Sep, Append(node_data.namespaces, node_data.name \o InputsYml))

\* A slip in the recursive call: the merged inputs of the node are handed down.
child_inputs_accumulated(yaml_inputs, extra) == yaml_inputs

\* The extra inputs handed to the recursive call for a sub tree.
child_inputs(yaml_inputs, extra) == extra

\* A slip in the recursive call: the sub directory is named by the sub
\* tree's stem instead of its step name.
subpath_by_stem(path, sub_node_data, relative) ==
    IF relative THEN Append(path, sub_node_data.name) ELSE path

\* The directory handed to the recursive call for a sub tree.
subpath(path, sub_node_data, relative) ==
    IF relative THEN Append(path, Last(sub_node_data.namespaces)) ELSE path

\* path.mkdir(parents=True, exist_ok=True)
mkdir(path) == {SubSeq(path, 1, n) : n \in 1..Len(path)}

CwlFile(cwl_tree) ==
    <<<<"line", "#!/usr/bin/env cwl-runner">>, <<"line", "auto_gen_header">>>>
        \o yaml_dump(cwl_tree)

YmlFile(yaml_inputs) == <<<<"line", "auto_gen_header">>>> \o yaml_dump(yaml_inputs)

\* One call of _write_to_disk(rose_tree, path, relative_run_path, inputs):
\* the call on top of the stack writes its two files and leaves a call for
\* every sub tree, in order, before the calls that were pending.
_write_to_disk ==
    /\ stack # <<>>
    /\ LET frame       == Head(stack)
           node_data   == rose_tree[frame.node]
           cwl_tree    == node_data.compiled_cwl
           yaml_inputs == Merge(node_data.workflow_inputs_file, frame.inputs)
           path_cwl    == Append(frame.path, filename_cwl(node_data, relative_run_path))
           path_yml    == Append(frame.path, filename_yml(node_data, relative_run_path))
           subs        == sub_trees(frame.node)
       IN  /\ made_dirs' = made_dirs \cup mkdir(frame.path)
           /\ fs' = [f \in DOMAIN fs \cup {path_cwl, path_yml} |->
                        IF f = path_yml THEN YmlFile(yaml_inputs)
                        ELSE IF f = path_cwl THEN CwlFile(cwl_tree)
                        ELSE fs[f]]
           /\ written' = [n \in DOMAIN written \cup {frame.node} |->
                            IF n = frame.node
                            THEN [path |-> frame.path,
                                  filename_cwl |-> filename_cwl(node_data, relative_run_path),
                                  filename_yml |-> filename_yml(node_data, relative_run_path)]
                            ELSE written[n]]
           /\ stack' = [i \in 1..Len(subs) |->
                           [node   |-> subs[i],
                            path   |-> subpath(frame.path, rose_tree[subs[i]],
                                               relative_run_path),
                            inputs |-> child_inputs(yaml_inputs, frame.inputs)]]
                        \o Tail(stack)
    /\ UNCHANGED <<rose_tree, relative_run_path, inputs>>
    /\ UNCHANGED <<cfgVars, injVars>>

InitWrite ==
    /\ \E S \in TreeShapes : rose_tree \in {t \in [S -> UNION {NodeDatas(n) : n \in S}] :
                                              \A n \in S : t[n].namespaces = n}
    /\ relative_run_path \in BOOLEAN
    /\ inputs \in ExtraInputs
    /\ stack = <<[node |-> <<>>, path |-> OutDir, inputs |-> inputs]>>
    /\ fs = <<>>
    /\ made_dirs = {}
    /\ written = <<>>
    \* the config store and the injector are not in use
    /\ present = {} /\ content = <<>> /\ dirs = {} /\ cwd = <<>>
    /\ last = NoCall /\ prev = NoCall /\ pc = "idle" /\ exit_status = -1
    /\ in_dicts = <<>> /\ ledger = <<>> /\ calls = <<>> /\ snapshots = <<>>

NextWrite == _write_to_disk

----------------------------------------------------------------------------
(* Tree Writer: the claims *)

\* C1: under flat naming, two distinct nodes with the same stem and
\* different namespace paths are written under different file names, both
\* for '<stem>.cwl' and for '<stem>_inputs.yml'.
C1_FlatNamesDistinct ==
    ~relative_run_path =>
        \A n, m \in DOMAIN written :
            (n # m /\ rose_tree[n].name = rose_tree[m].name) =>
                /\ written[n].filename_cwl # written[m].filename_cwl
                /\ written[n].filename_yml # written[m].filename_yml

Count(text, tok) == Cardinality({i \in DOMAIN text : text[i] = tok})

Markers(text) == Cardinality({i \in DOMAIN text : text[i][1] \in {"anchor", "alias"}})

RECURSIVE Copies(_, _)
\* How many times object o occurs in the tree a value unfolds to.
Copies(val, o) ==
    IF val.kind = "scalar" THEN 0
    ELSE LET d == Heap[val.v]
             S == {<<k, Copies(d[k], o)>> : k \in DOMAIN d}
             RECURSIVE Sum(_)
             Sum(T) == IF T = {} THEN 0
                       ELSE LET t == CHOOSE t \in T : TRUE IN t[2] + Sum(T \ {t})
         IN  (IF val.v = o THEN 1 ELSE 0) + Sum(S)

CopiesInDoc(doc, o) ==
    LET S == {<<k, Copies(doc[k], o)>> : k \in DOMAIN doc}
        RECURSIVE Sum(_)
        Sum(T) == IF T = {} THEN 0
                  ELSE LET t == CHOOSE t \in T : TRUE IN t[2] + Sum(T \ {t})
    IN  Sum(S)

\* C7: no file written holds an anchor or an alias, and the two files a
\* call writes hold one full copy of the File object for every place it is
\* reachable from in the document written.
C7_NoSharedStructure ==
    [][LET n    == Head(stack).node
           data == rose_tree[n]
           w    == written'[n]
       IN  /\ \A f \in DOMAIN fs' : Markers(fs'[f]) = 0
           /\ Count(fs'[Append(w.path, w.filename_cwl)], <<"scalar", "File">>)
                = CopiesInDoc(data.compiled_cwl, "o1")
           /\ Count(fs'[Append(w.path, w.filename_yml)], <<"scalar", "File">>)
                = CopiesInDoc(Merge(data.workflow_inputs_file, inputs), "o1")]_vars

\* A compiled document and an inputs document that reach the File object
\* from two places each have been written, with two copies of it.
C7_Witness ==
    /\ \E f \in DOMAIN fs :
          Count(fs[f], <<"line", "#!/usr/bin/env cwl-runner">>) = 1
            /\ Count(fs[f], <<"scalar", "File">>) = 2
    /\ \E f \in DOMAIN fs :
          Count(fs[f], <<"line", "#!/usr/bin/env cwl-runner">>) = 0
            /\ Count(fs[f], <<"scalar", "File">>) = 2

\* The directory of a node under the nested policy: the output directory,
\* then one directory per node of the chain below the root, named by the
\* last element of that node's namespace path.
ChainDir(n) ==
    OutDir \o [i \in 1..Len(n) |-> Last(rose_tree[SubSeq(n, 1, i)].namespaces)]

NodeFiles(n) ==
    {Append(ChainDir(n), rose_tree[n].name \o <<".", "c", "w", "l">>),
     Append(ChainDir(n),
            rose_tree[n].name \o <<"_", "i", "n", "p", "u", "t", "s", ".", "y", "m", "l">>)}

\* C8: under the nested-directory policy, once the tree is written, the
\* files on disk are exactly two per node, '<stem>.cwl' and
\* '<stem>_inputs.yml', in the node's chain directory.
C8_NestedLayout ==
    (relative_run_path /\ stack = <<>>) =>
        /\ DOMAIN fs = UNION {NodeFiles(n) : n \in DOMAIN rose_tree}
        /\ Cardinality(DOMAIN fs) = 2 * Cardinality(DOMAIN rose_tree)
        /\ \A n \in DOMAIN rose_tree :
              /\ Cardinality(NodeFiles(n)) = 2
              /\ NodeFiles(n) = {Append(written[n].path, written[n].filename_cwl),
                                 Append(written[n].path, written[n].filename_yml)}
              /\ ChainDir(n) \in made_dirs

\* A tree with a step of a step has been written under the nested policy.
C8_Witness ==
    /\ relative_run_path /\ stack = <<>>
    /\ \E n \in DOMAIN rose_tree : Len(n) = 2 /\ rose_tree[n].name # rose_tree[<<>>].name
    /\ Cardinality(DOMAIN rose_tree) = MaxNodes

\* C9: the inputs document a call writes is the node's own default inputs
\* overridden by the extra inputs passed at the root; the calls it leaves
\* for its sub trees carry those same extra inputs; the tree is unchanged.
C9_InputsMergedPerNode ==
    [][LET n  == Head(stack).node
           d  == rose_tree[n].workflow_inputs_file
           w  == written'[n]
           expected == [k \in DOMAIN d \cup DOMAIN inputs |->
                           IF k \in DOMAIN inputs THEN inputs[k] ELSE d[k]]
       IN  /\ fs'[Append(w.path, w.filename_yml)]
                = <<<<"line", "auto_gen_header">>>> \o yaml_dump(expected)
           /\ \A i \in DOMAIN stack' : stack'[i].inputs = inputs
           /\ rose_tree' = rose_tree
           /\ inputs' = inputs]_vars

\* A step of a step whose defaults differ from its parent's has been
\* written, an extra input overriding one of its defaults.
C9_Witness ==
    /\ stack = <<>>
    /\ inputs # <<>>
    /\ \E n \in DOMAIN written :
          /\ Len(n) = 2
          /\ "y" \in DOMAIN rose_tree[n].workflow_inputs_file
          /\ "x" \in DOMAIN rose_tree[SubSeq(n, 1, 1)].workflow_inputs_file
          /\ "x" \in DOMAIN rose_tree[<<>>].workflow_inputs_file

----------------------------------------------------------------------------
(* Specifications *)

SpecConfig == InitConfig /\ [][NextConfig]_vars

SpecInject == InitInject /\ [][NextInject]_vars

SpecWrite == InitWrite /\ [][NextWrite]_vars

====
